---- MODULE Spec2Model ----
(***************************************************************************)
(* Authentication and token-lifecycle core of the FastAPI application      *)
(* (app/crud.py, app/routes/users.py, app/models.py, app/main.py).         *)
(*                                                                         *)
(* The account table lives in an external PostgreSQL database.  Every      *)
(* request handler opens its own SQLAlchemy session (database.get_db), so  *)
(* a handler that loads a row, changes attributes in Python and commits is *)
(* modelled as two steps: the read (a snapshot of the row is kept in the   *)
(* handler) and the commit (an UPDATE of the changed columns WHERE id =    *)
(* the snapshot's id).  Handlers served by different worker processes, the *)
(* scheduler thread of the sweeper and the clock interleave between the    *)
(* two steps.  Handlers that only read, or issue one statement, are one    *)
(* step.                                                                   *)
(*                                                                         *)
(* Time is counted in units of 30 seconds, the lifetime of an access       *)
(* token (ACCESS_TOKEN_EXPIRE_MINUTES = 0.5).                              *)
(***************************************************************************)
EXTENDS Integers, FiniteSets, Sequences, TLC

\* ------------------------------------------------------------------ bounds
MaxUsers == 2       \* accounts ever inserted (primary keys 1..MaxUsers)
MaxLive == 1        \* accounts in the table at one time
MaxHandlers == 2    \* request handlers in flight between read and commit
MaxTicks == 1       \* clock advances
MaxIssued == 3      \* tokens handed out
MaxVersion == 2     \* cap of the version counters
MaxSecrets == 2     \* reset secrets generated

Usernames == {"alice", "bob"}
Emails == {"a@x.com", "b@x.com"}
Passwords == {"Abc12345!", "NewPass1!"}
RegPasswords == {"Abc12345!"}       \* the passwords accounts are created with
Salts == {"s1"}
Handlers == 1..MaxHandlers

\* ------------------------------------------------------- program constants
UnitsPerMinute == 2                 \* 1 / ACCESS_TOKEN_EXPIRE_MINUTES
REFRESH_TOKEN_EXPIRE_DAYS == 7
ConfirmHours == 1                   \* expires_delta=timedelta(hours=1)
SweepMinutes == 1                   \* timedelta(minutes=1)  # TEMP
ResetHours == 1                     \* timedelta(hours=1)  # valid for 1 h

Minute == UnitsPerMinute
Hour == 60 * Minute
Day == 24 * Hour
AccessTTL == Minute \div 2
RefreshTTL == REFRESH_TOKEN_EXPIRE_DAYS * Day
ConfirmTTL == ConfirmHours * Hour
SweepGrace == SweepMinutes * Minute
ResetTTL == ResetHours * Hour

\* How far the clock moves in one step: to the expiry of an access token,
\* past the sweeper's grace period and the expiry of a confirmation token's
\* hour, and to just before and just after the expiry of a refresh token.
TickSteps == {AccessTTL, Hour, RefreshTTL - AccessTTL, RefreshTTL + AccessTTL}

\* The offset of the server's local time zone from UTC, an input of the
\* deployment.  An offset east of UTC behaves as 0: jwt.decode has then
\* already refused what the local-time comparison would refuse.
TZOffsets == {0 - Hour, 0}

VARIABLES
    users,      \* the rows of the users table
    nextId,     \* the next primary key
    now,        \* the UTC clock
    tz,         \* the server's time-zone offset
    ticks,      \* clock advances so far
    issued,     \* the tokens handed out, each with what it was issued as
    sess,       \* per handler in flight: the request and the row it loaded
    sweep,      \* the sweeper's loaded rows between its query and its commit
    logouts,    \* per account id: logout requests answered 200
    proposals,  \* the user_id column of the rows of the proposals table
    nextSecret  \* the number of the next reset secret to be generated

vars == <<users, nextId, now, tz, ticks, issued, sess, sweep, logouts, proposals,
          nextSecret>>

\* ------------------------------------------------------------------ values
None == [none |-> TRUE]
NoVersion == 0 - 1
NoEmail == ""
\* NULL in the reset_token_expiry column, whose other values are times.
NoExpiry == 0 - 1
Idle == [op |-> "idle"]

\* A token the caller made up: its signature does not verify.
Forged == {[sub |-> u, version |-> 0, exp |-> RefreshTTL, signed |-> FALSE] :
             u \in Usernames}

IssuedTokens == {e.tok : e \in issued}
Presentable == IssuedTokens \cup Forged

\* ------------------------------------------------------ Credential hasher
hash_password(password, salt) ==
    [alg |-> "bcrypt", salt |-> salt, digest |-> password]

verify_password(plain_password, hashed_password) ==
    /\ hashed_password.alg = "bcrypt"
    /\ hashed_password.digest = plain_password

\* ----------------------------------------------------------- Token codec
\* jwt.encode: HS256 is deterministic, equal claims give the equal token.
jwt_encode(sub, version, exp) ==
    [sub |-> sub, version |-> version, exp |-> exp, signed |-> TRUE]

\* data.get("version", 0): a caller that passes no version gets version 0.
create_access_token(sub, version, expires_delta, t) ==
    jwt_encode(sub, IF version = NoVersion THEN 0 ELSE version,
               t + expires_delta)

create_refresh_token(user, t) ==
    jwt_encode(user.username, user.refresh_token_version, t + RefreshTTL)

\* jwt.decode: the signature, then (verify_exp) exp against the UTC clock.
jwt_decode(token, verify_exp, t) ==
    IF ~token.signed THEN None
    ELSE IF verify_exp /\ token.exp < t THEN None
    ELSE [sub |-> token.sub, version |-> token.version, exp |-> token.exp]

\* datetime.fromtimestamp(exp): the naive LOCAL time of the instant exp.
fromtimestamp(exp, z) == exp + z

verify_token(token, allow_expired, t, z) ==
    LET payload == jwt_decode(token, ~allow_expired, t)
    IN  IF payload = None THEN None
        ELSE IF ~allow_expired /\ fromtimestamp(payload.exp, z) < t THEN None
        ELSE payload

\* ------------------------------------------------------------ Account store
get_user_by_username_or_email(db, username, email) ==
    LET m == {u \in db : u.username = username \/ u.email = email}
    IN  IF m = {} THEN None ELSE CHOOSE u \in m : TRUE

RowById(db, id) ==
    LET m == {u \in db : u.id = id}
    IN  IF m = {} THEN None ELSE CHOOSE u \in m : TRUE

\* models.User: the column defaults of a freshly inserted row.
NewUser(id, username, email, password, t) ==
    [id |-> id, username |-> username, email |-> email,
     password |-> password, is_confirmed |-> FALSE, created_at |-> t,
     token_version |-> 0, refresh_token_version |-> 0, role |-> "user",
     reset_token |-> None, reset_token_expiry |-> NoExpiry]

\* unique=True on username and on email.
UniqueViolation(db, username, email) ==
    \E u \in db : u.username = username \/ u.email = email

verify_refresh_token(token, db, t, z) ==
    LET payload == verify_token(token, FALSE, t, z)
    IN  IF payload = None THEN None
        ELSE IF payload.sub = "" \/ payload.version = NoVersion THEN None
        ELSE LET user == get_user_by_username_or_email(db, payload.sub, NoEmail)
             IN  IF user = None THEN None
                 ELSE IF user.refresh_token_version # payload.version THEN None
                 ELSE user

\* get_logged_in_user decoding strictly, as verify_refresh_token does.
get_logged_in_user_strict(db, token, t, z) ==
    LET token_data == verify_token(token, FALSE, t, z)
    IN  IF token_data = None THEN None
        ELSE IF token_data.sub = "" \/ token_data.version = NoVersion THEN None
        ELSE LET user == get_user_by_username_or_email(db, token_data.sub, NoEmail)
             IN  IF user = None THEN None
                 ELSE IF user.token_version # token_data.version THEN None
                 ELSE user

get_logged_in_user(db, token, t, z) ==
    LET token_data == verify_token(token, TRUE, t, z)
    IN  IF token_data = None THEN None
        ELSE IF token_data.sub = "" \/ token_data.version = NoVersion THEN None
        ELSE LET user == get_user_by_username_or_email(db, token_data.sub, NoEmail)
             IN  IF user = None THEN None
                 ELSE IF user.token_version # token_data.version THEN None
                 ELSE user

\* authenticate_user without the password check.
authenticate_user_by_name(db, username, password) ==
    get_user_by_username_or_email(db, username, NoEmail)

authenticate_user(db, username, password) ==
    LET user == get_user_by_username_or_email(db, username, NoEmail)
    IN  IF user # None /\ verify_password(password, user.password)
        THEN user ELSE None


\* ---------------------------------------------------------------- handlers
\* What a handler answers: the HTTP status and the detail text, with the
\* account and the tokens of the body where there are any.
Answer(status, detail) == [status |-> status, detail |-> detail]

FreeHandler(h) ==
    /\ sess[h] = Idle
    /\ \A g \in Handlers : g < h => sess[g] # Idle

Issue(toks, kind) == {[tok |-> k, kind |-> kind] : k \in toks}

CanIssue(n) == Cardinality(issued) + n <= MaxIssued

Init ==
    /\ users = {}
    /\ nextId = 1
    /\ now = 0
    /\ tz \in TZOffsets
    /\ ticks = 0
    /\ issued = {}
    /\ sess = [h \in Handlers |-> Idle]
    /\ sweep = None
    /\ logouts = [i \in 1..MaxUsers |-> 0]
    /\ proposals = {}
    /\ nextSecret = 1

\* crud.create_user and models.User: the INSERT of a new row.
create_user(db, id, username, email, password, salt, t) ==
    db \cup {NewUser(id, username, email, hash_password(password, salt), t)}

\* ------------------------------------------------- POST /users/register
\* users.py 46-55: the existence check; a hit answers 400.
RegisterBeginAnswer(username, email) ==
    IF get_user_by_username_or_email(users, username, email) # None
    THEN Answer(400, "Username or email already registered")
    ELSE Answer(0, "")

RegisterBegin(h, username, email, password) ==
    /\ FreeHandler(h)
    /\ IF RegisterBeginAnswer(username, email).status = 400
       THEN UNCHANGED sess
       ELSE /\ nextId <= MaxUsers
            /\ sess' = [sess EXCEPT ![h] =
                           [op |-> "register", username |-> username,
                            email |-> email, password |-> password]]
    /\ UNCHANGED <<users, nextId, now, tz, ticks, issued, sweep, logouts, proposals, nextSecret>>

\* users.py 57-73: the INSERT, the confirmation token and the mail.  The
\* IntegrityError of a unique constraint is not caught by this handler (500);
\* a failed mail raises after the commit.
RegisterCommitAnswer(h, mail_sent) ==
    IF UniqueViolation(users, sess[h].username, sess[h].email)
    THEN Answer(500, "IntegrityError")
    ELSE IF ~mail_sent THEN Answer(500, "mail")
    ELSE Answer(200, "")

RegisterCommit(h) ==
    /\ sess[h].op = "register"
    /\ sess' = [sess EXCEPT ![h] = Idle]
    /\ \E salt \in Salts, mail_sent \in BOOLEAN :
       LET r == sess[h]
           confirmation_token ==
               create_access_token(r.username, NoVersion, ConfirmTTL, now)
       IN  IF RegisterCommitAnswer(h, mail_sent).detail = "IntegrityError"
           THEN UNCHANGED <<users, nextId, issued>>
           ELSE /\ Cardinality(users) < MaxLive
                /\ CanIssue(1)
                /\ users' = create_user(users, nextId, r.username, r.email,
                                        r.password, salt, now)
                /\ nextId' = nextId + 1
                /\ issued' = IF mail_sent
                             THEN issued \cup Issue({confirmation_token},
                                                    "confirm")
                             ELSE issued
    /\ UNCHANGED <<now, tz, ticks, sweep, logouts, proposals, nextSecret>>

\* ----------------------------------------------- POST /users/registered
\* users.py 107-142: no existence check; the INSERT's IntegrityError is
\* caught and answered with the error page.
RegisterFormAnswer(username, email, mail_sent) ==
    IF UniqueViolation(users, username, email)
    THEN Answer(200, "Email/Username already registered.")
    ELSE IF ~mail_sent THEN Answer(500, "mail")
    ELSE Answer(200, "")

RegisterForm(username, email, password) ==
    /\ \E salt \in Salts, mail_sent \in BOOLEAN :
       LET confirmation_token ==
               create_access_token(username, NoVersion, ConfirmTTL, now)
       IN  IF RegisterFormAnswer(username, email, mail_sent).detail =
                  "Email/Username already registered."
           THEN UNCHANGED <<users, nextId, issued>>
           ELSE /\ nextId <= MaxUsers
                /\ Cardinality(users) < MaxLive
                /\ CanIssue(1)
                /\ users' = create_user(users, nextId, username, email,
                                        password, salt, now)
                /\ nextId' = nextId + 1
                /\ issued' = IF mail_sent
                             THEN issued \cup Issue({confirmation_token},
                                                    "confirm")
                             ELSE issued
    /\ UNCHANGED <<now, tz, ticks, sess, sweep, logouts, proposals, nextSecret>>

\* --------------------------------------------------- GET /users/confirm
\* users.py 375-381: strict decode, then the account by sub; a payload
\* without sub raises KeyError at user_data["sub"].
ConfirmBeginAnswer(token) ==
    LET user_data == verify_token(token, FALSE, now, tz)
    IN  IF user_data = None THEN Answer(400, "Invalid or expired token")
        ELSE IF user_data.sub = "" THEN Answer(500, "KeyError")
        ELSE IF get_user_by_username_or_email(users, user_data.sub, NoEmail)
                    = None
        THEN Answer(404, "User not found")
        ELSE Answer(0, "")

ConfirmBegin(h, token) ==
    /\ FreeHandler(h)
    /\ IF ConfirmBeginAnswer(token).status # 0
       THEN UNCHANGED sess
       ELSE sess' = [sess EXCEPT ![h] =
                        [op |-> "confirm", tok |-> token,
                         user |-> get_user_by_username_or_email(
                                      users, token.sub, NoEmail)]]
    /\ UNCHANGED <<users, nextId, now, tz, ticks, issued, sweep, logouts, proposals, nextSecret>>

\* users.py 384-387: user.is_confirmed = True; db.commit().  An attribute
\* set to the value it already has is no change, so no UPDATE is sent; an
\* UPDATE that matches no row raises StaleDataError (500).
\* confirm_registration refusing an account that is already confirmed.
ConfirmCommitAnswer_once(h) ==
    IF sess[h].user.is_confirmed THEN Answer(400, "Already confirmed")
    ELSE IF RowById(users, sess[h].user.id) = None
    THEN Answer(500, "StaleDataError")
    ELSE Answer(200, "")

ConfirmCommitAnswer(h) ==
    IF sess[h].user.is_confirmed THEN Answer(200, "")
    ELSE IF RowById(users, sess[h].user.id) = None
    THEN Answer(500, "StaleDataError")
    ELSE Answer(200, "")

\* confirm_registration also writing the loaded object's counters back.
confirm_user_writing_row(db, user) ==
    LET row == RowById(db, user.id)
    IN  (db \ {row}) \cup {[user EXCEPT !.is_confirmed = TRUE]}

confirm_user(db, user) ==
    IF user.is_confirmed THEN db
    ELSE LET row == RowById(db, user.id)
         IN  (db \ {row}) \cup {[row EXCEPT !.is_confirmed = TRUE]}

ConfirmCommit(h) ==
    /\ sess[h].op = "confirm"
    /\ sess' = [sess EXCEPT ![h] = Idle]
    /\ IF ConfirmCommitAnswer(h).status = 200
       THEN users' = confirm_user(users, sess[h].user)
       ELSE UNCHANGED users
    /\ UNCHANGED <<nextId, now, tz, ticks, issued, sweep, logouts, proposals, nextSecret>>

\* ------------------------------------------------------ POST /users/login
\* users.py 154-188 (the form variant, 200-229, issues the same tokens).
\* login_user without the check of is_confirmed.
LoginAnswer_unchecked(username, password) ==
    LET authenticated_user == authenticate_user(users, username, password)
    IN  IF authenticated_user = None
        THEN Answer(401, "Invalid username or password")
        ELSE [status |-> 200, detail |-> "",
              access_token |->
                  create_access_token(username,
                      authenticated_user.token_version, AccessTTL, now),
              refresh_token |-> create_refresh_token(authenticated_user, now)]

LoginAnswer(username, password) ==
    LET authenticated_user == authenticate_user(users, username, password)
    IN  IF authenticated_user = None
        THEN Answer(401, "Invalid username or password")
        ELSE IF ~authenticated_user.is_confirmed
        THEN Answer(403, "Please confirm your email before logging in")
        ELSE [status |-> 200, detail |-> "",
              access_token |->
                  create_access_token(username,
                      authenticated_user.token_version, AccessTTL, now),
              refresh_token |-> create_refresh_token(authenticated_user, now)]

\* A login that stores a fresh hash of the password it verified.
Login_rehashing(username, password) ==
    /\ LoginAnswer(username, password).status = 200
    /\ users' = {IF u.username = username
                 THEN [u EXCEPT !.password = hash_password(password, "s2")]
                 ELSE u : u \in users}
    /\ UNCHANGED <<nextId, now, tz, ticks, issued, sess, sweep, logouts,
                   proposals, nextSecret>>

Login(username, password) ==
    /\ LET a == LoginAnswer(username, password)
       IN  IF a.status # 200 THEN UNCHANGED issued
           ELSE /\ CanIssue(2)
                /\ issued' = issued \cup Issue({a.access_token}, "access")
                                    \cup Issue({a.refresh_token}, "refresh")
    /\ UNCHANGED <<users, nextId, now, tz, ticks, sess, sweep, logouts, proposals, nextSecret>>

\* ---------------------------------------------------- POST /users/refresh
\* users.py 399-415 (GET /users/logged, 270-311, does the same from cookies).
RefreshAnswer(token) ==
    LET user == verify_refresh_token(token, users, now, tz)
    IN  IF user = None
        THEN Answer(401, "Invalid or expired refresh token")
        ELSE [status |-> 200, detail |-> "",
              access_token |->
                  create_access_token(user.username, user.token_version,
                                      AccessTTL, now),
              refresh_token |-> create_refresh_token(user, now)]

Refresh(token) ==
    /\ LET a == RefreshAnswer(token)
       IN  IF a.status # 200 THEN UNCHANGED issued
           ELSE /\ CanIssue(2)
                /\ issued' = issued \cup Issue({a.access_token}, "access")
                                    \cup Issue({a.refresh_token}, "refresh")
    /\ UNCHANGED <<users, nextId, now, tz, ticks, sess, sweep, logouts, proposals, nextSecret>>

\* ----------------------------------------------------------- GET /users/me
\* users.py 468-472.  POST /proposals, GET /music and the admin endpoints
\* gate on the same call of get_logged_in_user.
MeAnswer(token) ==
    LET user == get_logged_in_user(users, token, now, tz)
    IN  IF user = None THEN Answer(401, "Invalid or expired token")
        ELSE [status |-> 200, detail |-> "", username |-> user.username,
              email |-> user.email]

Me(token) ==
    /\ MeAnswer(token).status \in {200, 401}
    /\ UNCHANGED vars

\* ---------------------------------------------------- POST /users/logout
\* users.py 504-506: the account is loaded into the handler's session.
LogoutBeginAnswer(token) ==
    IF get_logged_in_user(users, token, now, tz) = None
    THEN Answer(401, "Invalid or expired token")
    ELSE Answer(0, "")

LogoutBegin(h, token) ==
    /\ FreeHandler(h)
    /\ IF LogoutBeginAnswer(token).status = 401
       THEN UNCHANGED sess
       ELSE LET user == get_logged_in_user(users, token, now, tz)
            IN  /\ user.token_version < MaxVersion
                /\ sess' = [sess EXCEPT ![h] =
                               [op |-> "logout", tok |-> token, user |-> user]]
    /\ UNCHANGED <<users, nextId, now, tz, ticks, issued, sweep, logouts, proposals, nextSecret>>

\* logout_user incrementing only the refresh counter.
logout_user_keeping_access_version(db, user) ==
    LET row == RowById(db, user.id)
    IN  (db \ {row}) \cup
        {[row EXCEPT !.refresh_token_version = user.refresh_token_version + 1]}

\* crud.logout_user: the counters are incremented in Python on the loaded
\* object, and db.commit() sends
\*   UPDATE users SET token_version = <v>, refresh_token_version = <r>
\*   WHERE id = <id>
\* with the values computed from the loaded object.
\* logout_user also clearing is_confirmed.
logout_user_unconfirming(db, user) ==
    LET row == RowById(db, user.id)
    IN  (db \ {row}) \cup
        {[row EXCEPT !.token_version = user.token_version + 1,
                     !.refresh_token_version = user.refresh_token_version + 1,
                     !.is_confirmed = FALSE]}

logout_user(db, user) ==
    LET row == RowById(db, user.id)
    IN  (db \ {row}) \cup
        {[row EXCEPT !.token_version = user.token_version + 1,
                     !.refresh_token_version = user.refresh_token_version + 1]}

\* users.py 509-511.  An UPDATE that matches no row raises StaleDataError.
LogoutCommitAnswer(h) ==
    IF RowById(users, sess[h].user.id) = None
    THEN Answer(500, "StaleDataError")
    ELSE Answer(200, "successfully logged out")

LogoutCommit(h) ==
    /\ sess[h].op = "logout"
    /\ sess' = [sess EXCEPT ![h] = Idle]
    /\ IF LogoutCommitAnswer(h).status = 200
       THEN /\ users' = logout_user(users, sess[h].user)
            /\ logouts' = [logouts EXCEPT ![sess[h].user.id] = @ + 1]
       ELSE UNCHANGED <<users, logouts>>
    /\ UNCHANGED <<nextId, now, tz, ticks, issued, sweep, proposals, nextSecret>>

\* ------------------------------------------------- Stale-account sweeper
\* crud.remove_unconfirmed_users 352-362: the query.
StaleUsers(db, t) ==
    {u \in db : ~u.is_confirmed /\ u.created_at < t - SweepGrace}

SweepRead ==
    /\ sweep = None
    /\ sweep' = [ids |-> {u.id : u \in StaleUsers(users, now)}]
    /\ UNCHANGED <<users, nextId, now, tz, ticks, issued, sess, logouts, proposals, nextSecret>>

\* crud.remove_unconfirmed_users 366-369: db.delete(user) for each loaded
\* object, then the commit.  User.proposals is a relationship without a
\* delete cascade, so the flush sets user_id of the account's proposals to
\* NULL; the column is NOT NULL, the statement raises IntegrityError, the
\* transaction is rolled back and the run deletes nothing.
SweepFails ==
    \E u \in users : u.id \in sweep.ids /\ u.id \in proposals

SweepCommit ==
    /\ sweep # None
    /\ users' = IF SweepFails THEN users
                ELSE {u \in users : u.id \notin sweep.ids}
    /\ sweep' = None
    /\ UNCHANGED <<nextId, now, tz, ticks, issued, sess, logouts, proposals, nextSecret>>

\* ------------------------------------------------- POST /users/proposals
\* users.py 485-490 and crud.create_proposal: the INSERT of a row with the
\* user_id of the account the token is accepted for.
AddProposalAnswer(token) ==
    IF get_logged_in_user(users, token, now, tz) = None
    THEN Answer(401, "Invalid or expired token")
    ELSE Answer(200, "has added a new proposal")

AddProposal(token) ==
    /\ proposals' =
          IF AddProposalAnswer(token).status = 401 THEN proposals
          ELSE proposals \cup {get_logged_in_user(users, token, now, tz).id}
    /\ UNCHANGED <<users, nextId, now, tz, ticks, issued, sess, sweep, logouts,
                   nextSecret>>

\* -------------------------------------------------------------------- clock
Tick ==
    /\ ticks < MaxTicks
    /\ \E d \in TickSteps : now' = now + d
    /\ ticks' = ticks + 1
    /\ UNCHANGED <<users, nextId, tz, issued, sess, sweep, logouts, proposals, nextSecret>>

\* The (username, email) pairs a registration is requested with.  Usernames
\* and emails are interchangeable names, so the requests that arrive before
\* any account was stored are taken to be for alice at a@x.com.
RegInputs ==
    IF nextId = 1 THEN {<<"alice", "a@x.com">>} ELSE Usernames \X Emails

Next ==
    \/ \E h \in Handlers, r \in RegInputs, p \in RegPasswords :
          RegisterBegin(h, r[1], r[2], p)
    \/ \E h \in Handlers : RegisterCommit(h)
    \/ \E r \in RegInputs, p \in RegPasswords :
          RegisterForm(r[1], r[2], p)
    \/ \E h \in Handlers, k \in Presentable : ConfirmBegin(h, k)
    \/ \E h \in Handlers : ConfirmCommit(h)
    \/ \E u \in Usernames, p \in Passwords : Login(u, p)
    \/ \E k \in Presentable : Refresh(k)
    \/ \E k \in Presentable : Me(k)
    \/ \E h \in Handlers, k \in Presentable : LogoutBegin(h, k)
    \/ \E h \in Handlers : LogoutCommit(h)
    \/ \E k \in Presentable : AddProposal(k)
    \/ SweepRead
    \/ SweepCommit
    \/ Tick

Spec == Init /\ [][Next]_vars

\* ------------------------------------------- the verifiers as functions
\* The stores, tokens and clocks the verifiers are applied to: no account, one
\* or two, each unconfirmed or confirmed and at any version (logout_user
\* writes both counters together, so a row's two counters are equal); one
\* token handed out at time 0 as an access, refresh or confirmation token;
\* the clock at 0 or after one step.
RowsOf(id, username) ==
    {[NewUser(id, username, e, hash_password(p, s), 0)
        EXCEPT !.is_confirmed = c, !.token_version = v,
               !.refresh_token_version = v] :
       e \in Emails, p \in RegPasswords, s \in Salts, c \in BOOLEAN,
       v \in 0..MaxVersion}

Stores ==
    {{}} \cup {{a} : a \in RowsOf(1, "alice")}
         \cup {{b} : b \in RowsOf(2, "bob")}
         \cup {{p[1], p[2]} :
                 p \in {q \in RowsOf(1, "alice") \X RowsOf(2, "bob") :
                          q[1].email # q[2].email}}

TokensAtZero ==
    {[tok |-> create_access_token(u, v, AccessTTL, 0), kind |-> "access"] :
       u \in Usernames, v \in 0..MaxVersion}
    \cup
    {[tok |-> jwt_encode(u, v, RefreshTTL), kind |-> "refresh"] :
       u \in Usernames, v \in 0..MaxVersion}
    \cup
    {[tok |-> create_access_token(u, NoVersion, ConfirmTTL, 0),
      kind |-> "confirm"] : u \in Usernames}

InitVerify ==
    /\ users \in Stores
    /\ nextId = MaxUsers + 1
    /\ now \in {0} \cup TickSteps
    /\ tz \in TZOffsets
    /\ ticks = 0
    /\ issued \in {{e} : e \in TokensAtZero}
    /\ sess = [h \in Handlers |-> Idle]
    /\ sweep = None
    /\ logouts = [i \in 1..MaxUsers |-> 0]
    /\ proposals = {}
    /\ nextSecret = 1

NextVerify ==
    \/ \E k \in Presentable : Me(k)
    \/ \E k \in Presentable : Refresh(k)

SpecVerify == InitVerify /\ [][NextVerify]_vars

\* ------------------------------------------- the sweeper as a function
\* The stores one run of the sweeper is applied to, with nothing else running:
\* the clock stands 61 minutes after time 0; alice's and bob's accounts were
\* each created 61 minutes, 30 minutes or 1 minute ago and are unconfirmed or
\* confirmed; each owns proposals or none.
SweepNow == 61 * Minute

CreatedAts == {0, SweepNow - 30 * Minute, SweepNow - Minute}

SweepRows(id, username, email) ==
    {[NewUser(id, username, email,
              hash_password("Abc12345!", "s1"), c) EXCEPT !.is_confirmed = b] :
       c \in CreatedAts, b \in BOOLEAN}

InitSweep ==
    /\ proposals \in SUBSET {1, 2}
    /\ nextSecret = 1
    /\ users \in {{a, b} : a \in SweepRows(1, "alice", "a@x.com"),
                           b \in SweepRows(2, "bob", "b@x.com")}
    /\ nextId = MaxUsers + 1
    /\ now = SweepNow
    /\ tz \in TZOffsets
    /\ ticks = 0
    /\ issued = {}
    /\ sess = [h \in Handlers |-> Idle]
    /\ sweep = None
    /\ logouts = [i \in 1..MaxUsers |-> 0]

NextSweep ==
    \/ SweepRead
    \/ SweepCommit

\* main.py 117-119: the scheduler starts the job every two minutes, and a
\* run that has queried goes on to its commit.
SpecSweep ==
    /\ InitSweep
    /\ [][NextSweep]_vars
    /\ WF_vars(SweepRead)
    /\ WF_vars(SweepCommit)

\* ------------------------------------------------------ Password reset
\* secrets.token_urlsafe(32): every call returns a secret no earlier call
\* returned; the secrets are numbered in the order they are generated.  A
\* caller presents a secret that was handed out, or 0, a guess.
KnownSecrets == 0..(nextSecret - 1)

get_user_by_email_or_first(db, email) ==
    LET m == {u \in db : u.email = email}
    IN  IF m = {} THEN (IF db = {} THEN None ELSE CHOOSE u \in db : TRUE)
        ELSE CHOOSE u \in m : TRUE

\* crud.generate_reset_token 374: the account with the email, if any.
get_user_by_email(db, email) ==
    LET m == {u \in db : u.email = email}
    IN  IF m = {} THEN None ELSE CHOOSE u \in m : TRUE

\* crud.verify_reset_token 399-403: .first() of the accounts whose
\* reset_token is not null.  The query has no ORDER BY, so which of several
\* such rows it returns is not determined.
FirstWithResetToken(db) ==
    LET m == {u \in db : u.reset_token # None}
    IN  IF m = {} THEN {None} ELSE m

\* crud.verify_reset_token 405-416, user being the row the query returned.
verify_reset_token(user, token, t) ==
    IF user = None THEN None
    ELSE IF user.reset_token_expiry = NoExpiry THEN None
    ELSE IF user.reset_token_expiry < t THEN None
    ELSE IF ~verify_password(token, user.reset_token) THEN None
    ELSE user

\* ------------------------------------------ POST /users/forgot-password/
\* users.py 606-611 and crud.py 374-377: the lookup; no account answers 404.
ForgotBeginAnswer(email) ==
    IF get_user_by_email(users, email) = None
    THEN Answer(404, "User not found")
    ELSE Answer(0, "")

ForgotBegin(h, email) ==
    /\ FreeHandler(h)
    /\ IF ForgotBeginAnswer(email).status = 404
       THEN UNCHANGED sess
       ELSE sess' = [sess EXCEPT ![h] =
                        [op |-> "forgot", email |-> email,
                         user |-> get_user_by_email(users, email)]]
    /\ UNCHANGED <<users, nextId, now, tz, ticks, issued, sweep, logouts,
                   proposals, nextSecret>>

\* crud.py 379-381: both reset fields set to None and committed.  Fields
\* that were loaded as None are unchanged and no UPDATE is sent; an UPDATE
\* that matches no row raises StaleDataError (500).
ForgotClearAnswer(h) ==
    IF sess[h].user.reset_token = None /\ sess[h].user.reset_token_expiry = NoExpiry
    THEN Answer(0, "")
    ELSE IF RowById(users, sess[h].user.id) = None
    THEN Answer(500, "StaleDataError")
    ELSE Answer(0, "")

clear_reset_fields(db, user) ==
    IF user.reset_token = None /\ user.reset_token_expiry = NoExpiry THEN db
    ELSE LET row == RowById(db, user.id)
         IN  (db \ {row}) \cup {[row EXCEPT !.reset_token = None,
                                            !.reset_token_expiry = NoExpiry]}

ForgotClear(h) ==
    /\ sess[h].op = "forgot"
    /\ IF ForgotClearAnswer(h).status = 500
       THEN /\ sess' = [sess EXCEPT ![h] = Idle]
            /\ UNCHANGED users
       ELSE /\ sess' = [sess EXCEPT ![h] = [@ EXCEPT !.op = "forgot_set"]]
            /\ users' = clear_reset_fields(users, sess[h].user)
    /\ UNCHANGED <<nextId, now, tz, ticks, issued, sweep, logouts, proposals,
                   nextSecret>>

store_reset_token_first_wins(db, user, secret, salt, t) ==
    LET row == RowById(db, user.id)
    IN  IF row.reset_token # None THEN db
        ELSE (db \ {row}) \cup
             {[row EXCEPT !.reset_token = hash_password(secret, salt),
                          !.reset_token_expiry = t + ResetTTL]}

store_reset_token_without_expiry(db, user, secret, salt, t) ==
    LET row == RowById(db, user.id)
    IN  (db \ {row}) \cup
        {[row EXCEPT !.reset_token = hash_password(secret, salt)]}

\* crud.py 383-394: the secret, its hash and the expiry, committed with
\*   UPDATE users SET reset_token = <hash>, reset_token_expiry = <expiry>
\*   WHERE id = <id>
store_reset_token(db, user, secret, salt, t) ==
    LET row == RowById(db, user.id)
    IN  (db \ {row}) \cup
        {[row EXCEPT !.reset_token = hash_password(secret, salt),
                     !.reset_token_expiry = t + ResetTTL]}

\* users.py 613-618: the mail, then the answer; a failed mail raises (500)
\* after the commit.
ForgotCommitAnswer(h, mail_sent) ==
    IF RowById(users, sess[h].user.id) = None
    THEN Answer(500, "StaleDataError")
    ELSE IF ~mail_sent THEN Answer(500, "mail")
    ELSE [status |-> 200, detail |-> "Password reset email sent",
          reset_token |-> nextSecret]

ForgotCommit(h) ==
    /\ sess[h].op = "forgot_set"
    /\ nextSecret <= MaxSecrets
    /\ sess' = [sess EXCEPT ![h] = Idle]
    /\ \E salt \in Salts, mail_sent \in BOOLEAN :
          IF ForgotCommitAnswer(h, mail_sent).detail = "StaleDataError"
          THEN UNCHANGED <<users, nextSecret>>
          ELSE /\ users' = store_reset_token(users, sess[h].user, nextSecret,
                                             salt, now)
               /\ nextSecret' = nextSecret + 1
    /\ UNCHANGED <<nextId, now, tz, ticks, issued, sweep, logouts, proposals>>

\* ---------------------------------------------- GET /users/reset-password
ResetFormAnswer(first, token) ==
    IF verify_reset_token(first, token, now) = None
    THEN Answer(200, "Invalid or expired token")
    ELSE Answer(200, "Show reset password form here")

ResetForm(token) ==
    /\ \E first \in FirstWithResetToken(users) :
          ResetFormAnswer(first, token).status = 200
    /\ UNCHANGED vars

\* --------------------------------------------- POST /users/reset-password
\* users.py 637-640: the verification; the account is loaded into the
\* handler's session.
ResetBeginAnswer(first, token) ==
    IF verify_reset_token(first, token, now) = None
    THEN Answer(200, "Invalid or expired token")
    ELSE Answer(0, "")

ResetBegin(h, token, new_password) ==
    /\ FreeHandler(h)
    /\ \E first \in FirstWithResetToken(users) :
          IF ResetBeginAnswer(first, token).status = 200
          THEN UNCHANGED sess
          ELSE sess' = [sess EXCEPT ![h] =
                           [op |-> "reset", token |-> token,
                            new_password |-> new_password,
                            user |-> verify_reset_token(first, token, now)]]
    /\ UNCHANGED <<users, nextId, now, tz, ticks, issued, sweep, logouts,
                   proposals, nextSecret>>

set_new_password_revoking(db, user, new_password, salt) ==
    LET row == RowById(db, user.id)
    IN  (db \ {row}) \cup
        {[row EXCEPT !.password = hash_password(new_password, salt),
                     !.reset_token = None,
                     !.reset_token_expiry = NoExpiry,
                     !.token_version = @ + 1,
                     !.refresh_token_version = @ + 1]}

set_new_password_keeping_token(db, user, new_password, salt) ==
    LET row == RowById(db, user.id)
    IN  (db \ {row}) \cup
        {[row EXCEPT !.password = hash_password(new_password, salt)]}

\* users.py 642-650: the new hash and the cleared fields, committed with
\*   UPDATE users SET password = <hash>, reset_token = NULL,
\*                    reset_token_expiry = NULL WHERE id = <id>
set_new_password(db, user, new_password, salt) ==
    LET row == RowById(db, user.id)
    IN  (db \ {row}) \cup
        {[row EXCEPT !.password = hash_password(new_password, salt),
                     !.reset_token = None,
                     !.reset_token_expiry = NoExpiry]}

ResetCommitAnswer(h) ==
    IF RowById(users, sess[h].user.id) = None
    THEN Answer(500, "StaleDataError")
    ELSE Answer(200, "Password reset successfully")

ResetCommit(h) ==
    /\ sess[h].op = "reset"
    /\ sess' = [sess EXCEPT ![h] = Idle]
    /\ IF ResetCommitAnswer(h).status = 500
       THEN UNCHANGED users
       ELSE \E salt \in Salts :
               users' = set_new_password(users, sess[h].user,
                                         sess[h].new_password, salt)
    /\ UNCHANGED <<nextId, now, tz, ticks, issued, sweep, logouts, proposals,
                   nextSecret>>

\* The reset flow with what interleaves with its writes: requests for a
\* reset and resets by several handlers, the sweeper and the clock.  The
\* table holds alice's confirmed account, alone or with bob's unconfirmed
\* one, as registration left them.
InitReset ==
    /\ users \in
         {{[NewUser(1, "alice", "a@x.com",
                    hash_password("Abc12345!", "s1"), 0)
              EXCEPT !.is_confirmed = TRUE]},
          {[NewUser(1, "alice", "a@x.com",
                    hash_password("Abc12345!", "s1"), 0)
              EXCEPT !.is_confirmed = TRUE],
           NewUser(2, "bob", "b@x.com", hash_password("Abc12345!", "s1"), 0)}}
    /\ nextId = MaxUsers + 1
    /\ now = 0
    /\ tz \in TZOffsets
    /\ ticks = 0
    /\ issued = {}
    /\ sess = [h \in Handlers |-> Idle]
    /\ sweep = None
    /\ logouts = [i \in 1..MaxUsers |-> 0]
    /\ proposals = {}
    /\ nextSecret = 1

NextReset ==
    \/ \E h \in Handlers, e \in Emails : ForgotBegin(h, e)
    \/ \E h \in Handlers : ForgotClear(h)
    \/ \E h \in Handlers : ForgotCommit(h)
    \/ \E k \in KnownSecrets : ResetForm(k)
    \/ \E h \in Handlers, k \in KnownSecrets, p \in Passwords :
          ResetBegin(h, k, p)
    \/ \E h \in Handlers : ResetCommit(h)
    \/ SweepRead
    \/ SweepCommit
    \/ Tick

SpecReset == InitReset /\ [][NextReset]_vars

\* ------------------------------------------ store accesses of the verifiers
\* The queries each verifier sends to the account store for a token, in
\* order; a query is named by the username it selects.

\* crud.verify_refresh_token 171-181.
verify_refresh_token_queries(token, db, t, z) ==
    LET payload == verify_token(token, FALSE, t, z)
    IN  IF payload = None THEN <<>>
        ELSE IF payload.sub = "" \/ payload.version = NoVersion THEN <<>>
        ELSE <<payload.sub>>

get_logged_in_user_queries_lookup_first(db, token, t, z) == <<token.sub>>

\* crud.get_logged_in_user 190-199.
get_logged_in_user_queries(db, token, t, z) ==
    LET token_data == verify_token(token, TRUE, t, z)
    IN  IF token_data = None THEN <<>>
        ELSE IF token_data.sub = "" \/ token_data.version = NoVersion THEN <<>>
        ELSE <<token_data.sub>>

\* users.py 375-379: user_data["sub"] of a payload without sub raises
\* KeyError (500) before the query.
confirm_registration_queries(token, db, t, z) ==
    LET user_data == verify_token(token, FALSE, t, z)
    IN  IF user_data = None THEN <<>>
        ELSE IF user_data.sub = "" THEN <<>>
        ELSE <<user_data.sub>>

\* Tokens of every shape a caller can present: signed or not, with or without
\* sub, with or without version, expiring with an access, a confirmation or a
\* refresh token handed out at time 0.
TokenShapes ==
    [sub : Usernames \cup {""},
     version : {NoVersion} \cup (0..MaxVersion),
     exp : {AccessTTL, ConfirmTTL, RefreshTTL},
     signed : BOOLEAN]

\* ------------------------------------- proposals against the sweeper
\* POST /users/proposals in its two database steps, so that a sweeper run can
\* fall between them.  users.py 485-487: the account the token is accepted
\* for is loaded.
AddProposalBegin(h, token) ==
    /\ FreeHandler(h)
    /\ IF AddProposalAnswer(token).status = 401
       THEN UNCHANGED sess
       ELSE sess' = [sess EXCEPT ![h] =
                        [op |-> "proposal", tok |-> token,
                         user |-> get_logged_in_user(users, token, now, tz)]]
    /\ UNCHANGED <<users, nextId, now, tz, ticks, issued, sweep, logouts,
                   proposals, nextSecret>>

AddProposalCommitAnswer_unconstrained(h) ==
    Answer(200, "has added a new proposal")

\* users.py 490 and crud.create_proposal 267-275: INSERT INTO proposals with
\* user_id = user.id.  models.py 46: user_id is a foreign key to users.id, so
\* the INSERT of an id no account has raises IntegrityError (500).
AddProposalCommitAnswer(h) ==
    IF RowById(users, sess[h].user.id) = None
    THEN Answer(500, "IntegrityError")
    ELSE Answer(200, "has added a new proposal")

AddProposalCommit(h) ==
    /\ sess[h].op = "proposal"
    /\ sess' = [sess EXCEPT ![h] = Idle]
    /\ proposals' = IF AddProposalCommitAnswer(h).status = 500 THEN proposals
                    ELSE proposals \cup {sess[h].user.id}
    /\ UNCHANGED <<users, nextId, now, tz, ticks, issued, sweep, logouts,
                   nextSecret>>

\* The stores of the sweeper's specification with no proposal yet, and the
\* token each account got at its registration; the handlers add proposals
\* while the sweeper runs.
InitProposals ==
    /\ users \in {{a, b} : a \in SweepRows(1, "alice", "a@x.com"),
                           b \in SweepRows(2, "bob", "b@x.com")}
    /\ issued = {[tok |-> create_access_token(u.username, NoVersion,
                                              ConfirmTTL, u.created_at),
                  kind |-> "confirm"] : u \in users}
    /\ proposals = {}
    /\ nextId = MaxUsers + 1
    /\ now = SweepNow
    /\ tz \in TZOffsets
    /\ ticks = 0
    /\ sess = [h \in Handlers |-> Idle]
    /\ sweep = None
    /\ logouts = [i \in 1..MaxUsers |-> 0]
    /\ nextSecret = 1

NextProposals ==
    \/ \E h \in Handlers, k \in Presentable : AddProposalBegin(h, k)
    \/ \E h \in Handlers : AddProposalCommit(h)
    \/ SweepRead
    \/ SweepCommit

SpecProposals == InitProposals /\ [][NextProposals]_vars

\* --------------------------------------- registration after the sweeper
\* Registrations, confirmations and the sweeper with a clock that advances
\* by five minutes: longer than the sweeper's grace period, shorter than the
\* life of a confirmation token.
ReregisterAfter == 5 * Minute

TickMinutes ==
    /\ ticks < MaxTicks
    /\ now' = now + ReregisterAfter
    /\ ticks' = ticks + 1
    /\ UNCHANGED <<users, nextId, tz, issued, sess, sweep, logouts, proposals,
                   nextSecret>>

NextReregister ==
    \/ \E h \in Handlers, r \in RegInputs, p \in RegPasswords :
          RegisterBegin(h, r[1], r[2], p)
    \/ \E h \in Handlers : RegisterCommit(h)
    \/ \E r \in RegInputs, p \in RegPasswords :
          RegisterForm(r[1], r[2], p)
    \/ \E h \in Handlers, k \in Presentable : ConfirmBegin(h, k)
    \/ \E h \in Handlers : ConfirmCommit(h)
    \/ SweepRead
    \/ SweepCommit
    \/ TickMinutes

SpecReregister == Init /\ [][NextReregister]_vars

\* ------------------------------------------- the reset against the tokens
\* The stores of the verifiers' specification in which alice's account has a
\* reset outstanding (secret 1, requested at time 0), one token handed out at
\* time 0, and the reset interleaved with logouts and with the verifiers.
OutstandingReset(row) ==
    [row EXCEPT !.reset_token = hash_password(1, "s1"),
                !.reset_token_expiry = ResetTTL]

InitResetFrame ==
    /\ users \in
         {IF q[2] = None THEN {OutstandingReset(q[1])}
                         ELSE {OutstandingReset(q[1]), q[2]} :
            q \in {r \in RowsOf(1, "alice") \X ({None} \cup RowsOf(2, "bob")) :
                     r[2] = None \/ r[2].email # r[1].email}}
    /\ nextId = MaxUsers + 1
    /\ now = 0
    /\ tz \in TZOffsets
    /\ ticks = 0
    /\ issued \in {{e} : e \in TokensAtZero}
    /\ sess = [h \in Handlers |-> Idle]
    /\ sweep = None
    /\ logouts = [i \in 1..MaxUsers |-> 0]
    /\ proposals = {}
    /\ nextSecret = 2

NextResetFrame ==
    \/ \E h \in Handlers, k \in KnownSecrets, p \in Passwords :
          ResetBegin(h, k, p)
    \/ \E h \in Handlers : ResetCommit(h)
    \/ \E h \in Handlers, k \in Presentable : LogoutBegin(h, k)
    \/ \E h \in Handlers : LogoutCommit(h)
    \/ \E k \in Presentable : Me(k)
    \/ \E k \in Presentable : Refresh(k)

SpecResetFrame == InitResetFrame /\ [][NextResetFrame]_vars

\* ------------------------------------------------------------------ claims
AccessTokens == {e.tok : e \in {x \in issued : x.kind = "access"}}
RefreshTokens == {e.tok : e \in {x \in issued : x.kind = "refresh"}}
ConfirmTokens == {e.tok : e \in {x \in issued : x.kind = "confirm"}}

Expired(token) == token.exp < now

\* C1: one successful logout takes the stored token_version and
\* refresh_token_version of the account each to exactly one more than they
\* were, and every access token and refresh token handed out for the account
\* before it is rejected afterwards, by get_logged_in_user and by
\* verify_refresh_token, expired or not.
C1_LogoutBumpsAndRevokes ==
    [][\A h \in Handlers :
         (LogoutCommit(h) /\ LogoutCommitAnswer(h).status = 200) =>
            LET before == RowById(users, sess[h].user.id)
                after == RowById(users', sess[h].user.id)
            IN  /\ after.token_version = before.token_version + 1
                /\ after.refresh_token_version =
                       before.refresh_token_version + 1
                /\ \A k \in AccessTokens :
                       k.sub = before.username =>
                           get_logged_in_user(users', k, now', tz') = None
                /\ \A k \in RefreshTokens :
                       k.sub = before.username =>
                           verify_refresh_token(k, users', now', tz') = None
      ]_vars

\* C2: no increment is lost: both version counters of every account equal
\* the number of logout requests for it that were answered 200, also when
\* the requests interleave.
C2_NoLostIncrement ==
    \A u \in users :
        /\ u.token_version = logouts[u.id]
        /\ u.refresh_token_version = logouts[u.id]

\* C3: both version counters are 0 when the account is created and no step
\* lowers either counter of an account that exists.
C3_VersionsNeverDecrease ==
    [][\A v \in users' :
         LET u == RowById(users, v.id)
         IN  IF u = None
             THEN v.token_version = 0 /\ v.refresh_token_version = 0
             ELSE /\ v.token_version >= u.token_version
                  /\ v.refresh_token_version >= u.refresh_token_version
      ]_vars

\* C4: get_logged_in_user returns an account exactly when the token is
\* signed and well-formed and there is an account whose username is the
\* token's sub and whose token_version is the token's version; it returns
\* that account; the token's expiry plays no part.
C4_VerifyAccessTokenIffVersionMatch ==
    \A k \in Presentable :
        LET r == get_logged_in_user(users, k, now, tz)
            m == {u \in users : u.username = k.sub
                                /\ u.token_version = k.version}
        IN  /\ (r # None) <=>
                  (k.signed /\ k.sub # "" /\ k.version # NoVersion /\ m # {})
            /\ (r # None) => (m = {r})

\* C4 witness: with two accounts in the table, an access token past its
\* expiry is accepted for the account it names.
C4_Witness ==
    /\ Cardinality(users) = 2
    /\ \E k \in AccessTokens :
          /\ Expired(k)
          /\ get_logged_in_user(users, k, now, tz) # None
          /\ get_logged_in_user(users, k, now, tz).username = k.sub

\* C5: an access token past its expiry authorizes nothing: /me and the
\* logout endpoint refuse it, whatever its version.
C5_ExpiredAccessTokenNeverAuthorizes ==
    \A k \in AccessTokens :
        Expired(k) =>
            /\ MeAnswer(k).status = 401
            /\ LogoutBeginAnswer(k).status = 401

\* C6: refresh answers 200 exactly when the presented token is signed, not
\* past its expiry, and its sub and version are those of an account's
\* username and current refresh_token_version; the new tokens then carry the
\* account's current token_version and refresh_token_version; otherwise it
\* answers 401 and hands out nothing.
C6_RefreshIffValid ==
    \A k \in RefreshTokens \cup Forged :
        LET a == RefreshAnswer(k)
            m == {u \in users : u.username = k.sub
                                /\ u.refresh_token_version = k.version}
        IN  /\ (a.status = 200) <=> (k.signed /\ ~Expired(k) /\ m # {})
            /\ a.status = 200 =>
                  \E u \in m :
                      /\ a.access_token.version = u.token_version
                      /\ a.refresh_token.version = u.refresh_token_version
                      /\ a.access_token.sub = u.username
                      /\ a.refresh_token.sub = u.username
            /\ a.status # 200 =>
                  a = Answer(401, "Invalid or expired refresh token")

\* C7: a token handed out as an access token is never accepted by
\* verify_refresh_token, and one handed out as a refresh token is never
\* accepted by get_logged_in_user.
C7_TokensNotInterchangeable ==
    /\ \A k \in AccessTokens :
          verify_refresh_token(k, users, now, tz) = None
    /\ \A k \in RefreshTokens :
          get_logged_in_user(users, k, now, tz) = None

\* C8: the confirmation token of a registration carries no version claim and
\* is accepted neither by get_logged_in_user nor by verify_refresh_token.
C8_ConfirmationTokenVersionless ==
    \A k \in ConfirmTokens :
        /\ k.version = NoVersion
        /\ get_logged_in_user(users, k, now, tz) = None
        /\ verify_refresh_token(k, users, now, tz) = None

Conflict(answer) ==
    answer.detail \in {"Username or email already registered",
                       "Email/Username already registered."}

\* What register must have stored for the request in handler h.
Registered(db, r) ==
    {u \in db : /\ u.username = r.username
                /\ u.email = r.email
                /\ ~u.is_confirmed
                /\ u.token_version = 0
                /\ u.refresh_token_version = 0
                /\ u.reset_token = None
                /\ u.reset_token_expiry = NoExpiry
                /\ u.password.alg = "bcrypt"
                /\ verify_password(r.password, u.password)}

\* C9: register answers Conflict when an account with the username or the
\* email exists and then leaves the table as it is; a register that found
\* none stores exactly one new account, unconfirmed, both counters 0, both
\* reset fields null, the password hashed, retrievable by its username.
C9_RegisterConflictOrOneNewAccount ==
    [][/\ \A u \in Usernames, e \in Emails :
             UniqueViolation(users, u, e) =>
                /\ Conflict(RegisterBeginAnswer(u, e))
                /\ \A m \in BOOLEAN : Conflict(RegisterFormAnswer(u, e, m))
       /\ \A h \in Handlers :
             RegisterCommit(h) =>
                /\ Cardinality(users' \ users) = 1
                /\ users \subseteq users'
                /\ users' \ users \subseteq Registered(users', sess[h])
                /\ get_user_by_username_or_email(users', sess[h].username,
                                                 NoEmail) \in users' \ users
      ]_vars

\* C10: the table never holds two accounts with one username or one email,
\* and of two registers that both passed the existence check the one that
\* commits second answers Conflict.
C10_UniqueAndRaceConflict ==
    [][/\ \A u, v \in users' :
             (u.username = v.username \/ u.email = v.email) => u = v
       /\ \A h \in Handlers :
             (RegisterCommit(h)
                /\ UniqueViolation(users, sess[h].username, sess[h].email)) =>
                /\ users' = users
                /\ \A m \in BOOLEAN : Conflict(RegisterCommitAnswer(h, m))
      ]_vars

\* C11: login with the right password answers 403 (not the 401 of wrong
\* credentials) and hands out nothing while the account is unconfirmed; once
\* the account is confirmed it answers 200 with an access token carrying the
\* account's token_version and a refresh token carrying its
\* refresh_token_version; and a confirm request that commits leaves the
\* account, while it is stored, in the state where that login succeeds.
C11_LoginNeedsConfirmation ==
    /\ [](\A u \in users, p \in Passwords :
            verify_password(p, u.password) =>
               LET a == LoginAnswer(u.username, p)
               IN  IF ~u.is_confirmed
                   THEN /\ a = Answer(403,
                                "Please confirm your email before logging in")
                        /\ a # LoginAnswer(u.username, "wrong")
                   ELSE /\ a.status = 200
                        /\ a.access_token.sub = u.username
                        /\ a.access_token.version = u.token_version
                        /\ a.refresh_token.sub = u.username
                        /\ a.refresh_token.version = u.refresh_token_version)
    /\ [][\A h \in Handlers :
            (ConfirmCommit(h) /\ ConfirmCommitAnswer(h).status = 200) =>
               \A u \in users' :
                  u.id = sess[h].user.id =>
                     /\ u.is_confirmed
                     /\ \A p \in Passwords :
                           verify_password(p, u.password) =>
                              LoginAnswer(u.username, p)'.status = 200
         ]_vars

\* C11 witness: a confirmed account that was never logged out, with an
\* access and a refresh token of version 0 handed out for it.
C11_Witness ==
    \E u \in users :
        /\ u.is_confirmed
        /\ u.token_version = 0
        /\ \E k \in AccessTokens : k.sub = u.username /\ k.version = 0
        /\ \E k \in RefreshTokens : k.sub = u.username /\ k.version = 0

\* C12: a login that fails authentication answers one and the same thing,
\* 401 "Invalid username or password", whether no account has the username
\* or an account has it and the password is wrong, in every state of the
\* store.
C12_LoginFailsUniformly ==
    \A name \in Usernames, p \in Passwords :
        LET user == get_user_by_username_or_email(users, name, NoEmail)
        IN  (user = None \/ ~verify_password(p, user.password)) =>
               LoginAnswer(name, p) =
                   Answer(401, "Invalid username or password")

\* C12 witness: one username has an account, confirmed, and the other has
\* none; the wrong password for the first and any password for the second
\* are refused.
C12_Witness ==
    /\ \E u \in users, p \in Passwords :
          /\ u.is_confirmed
          /\ ~verify_password(p, u.password)
          /\ LoginAnswer(u.username, p).status = 401
    /\ \E name \in Usernames :
          /\ get_user_by_username_or_email(users, name, NoEmail) = None
          /\ \A p \in Passwords : LoginAnswer(name, p).status = 401

\* What the strict decode of confirm accepts according to the claim: a signed
\* token not past its expiry.
ValidToken(token) == token.signed /\ ~Expired(token)

\* C13: confirm answers 400 for a token that is forged or past its expiry
\* and 404 for a valid token whose sub names no account, changing nothing;
\* for a valid token whose sub names an account it goes on to the commit,
\* and the commit sets is_confirmed of that account and changes no other
\* field of any account.
C13_ConfirmOutcomes ==
    /\ [](\A k \in Presentable :
            LET a == ConfirmBeginAnswer(k)
                user == get_user_by_username_or_email(users, k.sub, NoEmail)
            IN  /\ ~ValidToken(k) =>
                       a = Answer(400, "Invalid or expired token")
                /\ (ValidToken(k) /\ user = None) =>
                       a = Answer(404, "User not found")
                /\ (ValidToken(k) /\ user # None) => a.status = 0)
    /\ [][/\ \A h \in Handlers, k \in Presentable :
                (ConfirmBegin(h, k) /\ ConfirmBeginAnswer(k).status # 0) =>
                    UNCHANGED vars
          /\ \A h \in Handlers :
                ConfirmCommit(h) =>
                    users' = {IF u.id = sess[h].user.id
                              THEN [u EXCEPT !.is_confirmed = TRUE]
                              ELSE u : u \in users}
         ]_vars

\* C14: an account that is confirmed is confirmed in every later state in
\* which it is stored.
C14_ConfirmedStaysConfirmed ==
    [][\A u \in users, v \in users' :
          (u.id = v.id /\ u.is_confirmed) => v.is_confirmed
      ]_vars

\* C14 witness: a confirmed account that has since been logged out.
C14_Witness ==
    \E u \in users :
        u.is_confirmed /\ u.token_version > 0 /\ logouts[u.id] > 0

\* C15: a confirm request for an account that is already confirmed changes
\* no field of any account, and hands out nothing.
C15_ConfirmIdempotent ==
    [][\A h \in Handlers :
          (ConfirmCommit(h)
             /\ \E u \in users : u.id = sess[h].user.id /\ u.is_confirmed) =>
                /\ users' = users
                /\ issued' = issued
                /\ proposals' = proposals
      ]_vars

\* C15 witness: a second confirm request with the registration's token has
\* loaded the account the first one confirmed.
C15_Witness ==
    \E h \in Handlers :
        /\ sess[h].op = "confirm"
        /\ sess[h].tok \in ConfirmTokens
        /\ sess[h].user.is_confirmed

\* C16 as stated: of two confirm requests with one valid token the second,
\* finding the account already confirmed, is refused.
C16_SecondConfirmFails ==
    [][\A h \in Handlers :
          (ConfirmCommit(h)
             /\ \E u \in users : u.id = sess[h].user.id /\ u.is_confirmed) =>
                ConfirmCommitAnswer(h).status # 200
      ]_vars

\* C16 amended: a confirm request whose token still decodes and whose
\* account is stored answers 200 also when the account is already confirmed:
\* the answer of confirm does not depend on is_confirmed.
C16_SecondConfirmSucceeds ==
    [][\A h \in Handlers :
          (ConfirmCommit(h)
             /\ \E u \in users : u.id = sess[h].user.id /\ u.is_confirmed) =>
                ConfirmCommitAnswer(h) = Answer(200, "")
      ]_vars

\* C16 witness: a confirm request with an unexpired confirmation token is in
\* flight for an account that is stored and confirmed.
C16_Witness ==
    \E h \in Handlers, u \in users :
        /\ sess[h].op = "confirm"
        /\ ValidToken(sess[h].tok)
        /\ u.id = sess[h].user.id
        /\ u.is_confirmed

\* The accounts a run of the sweeper is to delete at time t with grace
\* period g.
Unconfirmed(db, t, g) ==
    {u \in db : ~u.is_confirmed /\ u.created_at < t - g}

\* C17: a run of the sweeper with nothing else running deletes exactly the
\* accounts that are unconfirmed and were created before now minus the grace
\* period, and leaves every other account as it was.
C17_SweepDeletesExactlyStale ==
    [][SweepCommit => users' = users \ Unconfirmed(users, now, SweepGrace)
      ]_vars

\* C18: a run of the sweeper deletes every unconfirmed account created more
\* than one hour ago (the one created 61 minutes ago) and no unconfirmed
\* account created within the last hour (the one created 30 minutes ago).
C18_SweepGraceIsOneHour ==
    [][SweepCommit =>
          \A u \in users :
              ~u.is_confirmed =>
                  IF u.created_at < now - Hour
                  THEN u \notin users'
                  ELSE u \in users'
      ]_vars

\* C19: the sweeper never deletes an account that is confirmed when the
\* delete is applied, also when the confirmation was committed after the
\* sweeper had read its list.
C19_SweepSparesConfirmed ==
    [][SweepCommit =>
          \A u \in users : u.is_confirmed => u \in users'
      ]_vars

\* C20: with the sweeper running again and again, an account that is
\* unconfirmed and older than the grace period, and is never confirmed, is
\* eventually gone from the table, whether or not it or another such
\* account owns proposals.
C20_StaleAccountEventuallyDeleted ==
    \A i \in 1..MaxUsers :
        (\E u \in Unconfirmed(users, now, SweepGrace) : u.id = i)
            ~> (\A u \in users : u.id # i)

\* An email that belongs to no stored account.
NoAccount(email) == \A u \in users : u.email # email

\* C21: a reset request for an email that belongs to no account is answered
\* 404 "User not found" and changes nothing: no account, no reset field, no
\* secret is generated and no handler is left working on it.
C21_UnknownEmailNotFound ==
    /\ [](\A e \in Emails :
             NoAccount(e) => ForgotBeginAnswer(e) = Answer(404, "User not found"))
    /\ [][\A h \in Handlers, e \in Emails :
             (NoAccount(e) /\ ForgotBegin(h, e)) => UNCHANGED vars]_vars

\* C21 witness: an email has no account while another account has a reset
\* outstanding, whose fields the refused request must leave alone.
C21_Witness ==
    \E e \in Emails :
        /\ NoAccount(e)
        /\ ForgotBeginAnswer(e).status = 404
        /\ \E u \in users : u.reset_token # None

\* C22: in every stored state each account has reset_token and
\* reset_token_expiry both null or both set; a reset request that stores its
\* secret sets both, the token to a hash of the secret and the expiry to one
\* hour after the request; a reset that succeeds clears both.
C22_ResetFieldsTogether ==
    /\ [](\A u \in users :
             (u.reset_token = None) <=> (u.reset_token_expiry = NoExpiry))
    /\ [][\A h \in Handlers :
             (ForgotCommit(h) /\ nextSecret' = nextSecret + 1) =>
                 \E u \in users' :
                     /\ u.id = sess[h].user.id
                     /\ u.reset_token \in
                           {hash_password(nextSecret, s) : s \in Salts}
                     /\ u.reset_token.alg = "bcrypt"
                     /\ u.reset_token_expiry = now + Hour]_vars
    /\ [][\A h \in Handlers :
             (ResetCommit(h) /\ ResetCommitAnswer(h).status = 200) =>
                 \E u \in users' :
                     /\ u.id = sess[h].user.id
                     /\ u.reset_token = None
                     /\ u.reset_token_expiry = NoExpiry]_vars

\* C22 witness: one account has been through a reset, which cleared its
\* fields, while another has a reset outstanding with both fields set.
C22_Witness ==
    \E u \in users, v \in users :
        /\ u.password.digest = "NewPass1!"
        /\ u.reset_token = None /\ u.reset_token_expiry = NoExpiry
        /\ v.reset_token # None /\ v.reset_token_expiry # NoExpiry

\* The account holds the hash of the secret and its expiry has not elapsed.
HoldsSecret(a, secret, t) ==
    /\ a.reset_token # None
    /\ verify_password(secret, a.reset_token)
    /\ a.reset_token_expiry >= t

\* C23: whatever the table holds, the verification of a reset secret returns
\* account A exactly when A's stored hash matches the secret and A's expiry
\* has not elapsed: a valid secret of A is never refused and never resolves
\* to another account, also while other accounts have resets outstanding or
\* expired.
C23_VerifyFindsHolder ==
    \A k \in KnownSecrets, first \in FirstWithResetToken(users), a \in users :
        (verify_reset_token(first, k, now) = a) <=> HoldsSecret(a, k, now)

\* No stored account holds the hash of the secret.
Unheld(db, secret) ==
    \A u \in db : u.reset_token # None => ~verify_password(secret, u.reset_token)

\* C24: a reset secret is used once.  When a reset with secret S succeeds,
\* the account's stored password verifies against the new password and
\* against no other, both reset fields are null and no account holds S any
\* more; a secret that no account holds is never held again, so every later
\* verification of S yields nothing and every later reset with S is refused
\* with "Invalid or expired token" and changes nothing.
C24_SecretUsedOnce ==
    /\ [][\A h \in Handlers :
             (ResetCommit(h) /\ ResetCommitAnswer(h).status = 200) =>
                 /\ \E u \in users' :
                       /\ u.id = sess[h].user.id
                       /\ verify_password(sess[h].new_password, u.password)
                       /\ \A p \in Passwords \ {sess[h].new_password} :
                             ~verify_password(p, u.password)
                       /\ u.reset_token = None
                       /\ u.reset_token_expiry = NoExpiry
                 /\ Unheld(users', sess[h].token)]_vars
    /\ [][\A k \in KnownSecrets :
             Unheld(users, k) => Unheld(users', k)]_vars
    /\ [](\A k \in KnownSecrets, first \in FirstWithResetToken(users) :
             Unheld(users, k) =>
                 /\ verify_reset_token(first, k, now) = None
                 /\ ResetBeginAnswer(first, k) =
                       Answer(200, "Invalid or expired token")
                 /\ ResetFormAnswer(first, k) =
                       Answer(200, "Invalid or expired token"))
    /\ [][\A h \in Handlers, k \in KnownSecrets, p \in Passwords :
             (Unheld(users, k) /\ ResetBegin(h, k, p)) => UNCHANGED vars]_vars

\* C24 witness: the one secret handed out has been used for a reset that
\* stored the new password and cleared the fields, and the handlers are free
\* for later requests with it.
C24_Witness ==
    /\ nextSecret = 2
    /\ Unheld(users, 1)
    /\ \E u \in users :
          /\ verify_password("NewPass1!", u.password)
          /\ u.reset_token = None
    /\ \A h \in Handlers : sess[h] = Idle

\* C25: of two resets in flight with the same secret and different new
\* passwords at most one succeeds: once one of them has stored its password
\* the other is refused.
C25_OneResetPerSecret ==
    [][\A h \in Handlers, g \in Handlers :
          (/\ h # g
           /\ sess[h].op = "reset" /\ sess[g].op = "reset"
           /\ sess[h].token = sess[g].token
           /\ sess[h].new_password # sess[g].new_password
           /\ ResetCommit(h)
           /\ ResetCommitAnswer(h).status = 200) =>
              (ResetCommitAnswer(g).detail # "Password reset successfully")'
      ]_vars

\* The token fails the signature check or lacks a claim the verifier needs.
Malformed(token, needs_version) ==
    \/ ~token.signed
    \/ token.sub = ""
    \/ needs_version /\ token.version = NoVersion

\* C26: get_logged_in_user, verify_refresh_token and confirm query the account
\* store only for a token that passed the signature and structure checks: for
\* a token that is not signed, or lacks sub, or lacks version where the
\* verifier needs it, they send no query; and an account they return was
\* read by exactly one query, for the token's sub.
C26_NoStoreReadBeforeTokenChecks ==
    \A k \in TokenShapes \cup Presentable :
        /\ Malformed(k, TRUE) =>
              /\ get_logged_in_user_queries(users, k, now, tz) = <<>>
              /\ verify_refresh_token_queries(k, users, now, tz) = <<>>
        /\ Malformed(k, FALSE) =>
              confirm_registration_queries(k, users, now, tz) = <<>>
        /\ get_logged_in_user(users, k, now, tz) # None =>
              get_logged_in_user_queries(users, k, now, tz) = <<k.sub>>
        /\ verify_refresh_token(k, users, now, tz) # None =>
              verify_refresh_token_queries(k, users, now, tz) = <<k.sub>>
        /\ ConfirmBeginAnswer(k).status \in {0, 404} =>
              confirm_registration_queries(k, users, now, tz) = <<k.sub>>

\* C26 witness: an account is stored, and a signed, unexpired token naming it
\* but carrying no version, and a forged token naming it, reach none of the
\* verifiers' queries, while the well-formed token handed out does.
C26_Witness ==
    \E u \in users, k \in TokenShapes, f \in Forged, g \in IssuedTokens :
        /\ k.sub = u.username /\ k.signed /\ k.version = NoVersion
        /\ k.exp > now
        /\ get_logged_in_user_queries(users, k, now, tz) = <<>>
        /\ f.sub = u.username
        /\ verify_refresh_token_queries(f, users, now, tz) = <<>>
        /\ confirm_registration_queries(f, users, now, tz) = <<>>
        /\ get_logged_in_user_queries(users, g, now, tz) = <<g.sub>>

\* The claims sets and lifetimes tokens are encoded from: a sub, with a
\* version or without one.
ClaimsSets ==
    [sub : Usernames, version : {NoVersion} \cup (0..MaxVersion)]

Lifetimes == {AccessTTL, ConfirmTTL, RefreshTTL}

\* C27: a token encoded at time 0 from a claims set and a lifetime decodes,
\* at every time before its expiry, to the claims supplied and the expiry,
\* nothing added or altered; at its expiry and at every later time the strict
\* decode fails and the decode that allows expired tokens returns the claims.
C27_CodecRoundTrip ==
    \A c \in ClaimsSets, ttl \in Lifetimes :
        LET token == create_access_token(c.sub, c.version, ttl, 0)
            claims == [sub |-> c.sub, version |-> c.version, exp |-> ttl]
        IN  /\ now < ttl =>
                  /\ verify_token(token, FALSE, now, tz) = claims
                  /\ verify_token(token, TRUE, now, tz) = claims
            /\ now >= ttl =>
                  /\ verify_token(token, FALSE, now, tz) = None
                  /\ verify_token(token, TRUE, now, tz) = claims

\* C28: refresh rotates without revoking.  A refresh changes no account, so
\* neither version counter; and a refresh token that refresh accepts is still
\* accepted after any step that is not a logout, as long as the token is not
\* past its expiry: so after a successful refresh with R, R is accepted by
\* every later refresh until it expires or the account logs out.
C28_RefreshDoesNotRevoke ==
    /\ [][\A k \in Presentable : Refresh(k) => users' = users]_vars
    /\ [][\A k \in RefreshTokens :
             (/\ RefreshAnswer(k).status = 200
              /\ logouts' = logouts
              /\ k.exp >= now') =>
                 (RefreshAnswer(k).status = 200)']_vars

\* C29: login only reads the account store: a login attempt, whether it is
\* answered 200, 401 (wrong name or password) or 403 (not confirmed), changes
\* no field of any account, and its answer is one of the three.
C29_LoginOnlyReads ==
    /\ [](\A u \in Usernames, p \in Passwords :
             LoginAnswer(u, p).status \in {200, 401, 403})
    /\ [][\A u \in Usernames, p \in Passwords :
             Login(u, p) => users' = users]_vars

\* C29 witness: a login has succeeded and handed out its tokens for a stored,
\* confirmed account, and a login with another password is refused.
C29_Witness ==
    \E u \in users, p \in Passwords, q \in Passwords :
        /\ LoginAnswer(u.username, p).status = 200
        /\ LoginAnswer(u.username, q).status = 401
        /\ \E e \in issued :
              /\ e.kind = "refresh"
              /\ e.tok.sub = u.username
              /\ e.tok.version = u.refresh_token_version

\* C30: a mail that cannot be sent does not fail the operation that sends
\* it.  A registration that stores its account stores it and answers 200
\* whether or not the confirmation mail was sent; a reset request that stores
\* its secret stores hash and expiry and answers 200 whether or not the reset
\* mail was sent.
C30_MailFailureNotFatal ==
    /\ [](\A h \in Handlers :
             /\ (sess[h].op = "register"
                   /\ ~UniqueViolation(users, sess[h].username, sess[h].email))
                  => RegisterCommitAnswer(h, FALSE).status = 200
             /\ (sess[h].op = "forgot_set"
                   /\ RowById(users, sess[h].user.id) # None)
                  => ForgotCommitAnswer(h, FALSE).status = 200)
    /\ [](\A u \in Usernames, e \in Emails :
             ~UniqueViolation(users, u, e)
                => RegisterFormAnswer(u, e, FALSE).status = 200)
    /\ [][\A h \in Handlers :
             (RegisterCommit(h)
                /\ ~UniqueViolation(users, sess[h].username, sess[h].email))
               => \E u \in users' : u.username = sess[h].username]_vars
    /\ [][\A h \in Handlers :
             (ForgotCommit(h) /\ RowById(users, sess[h].user.id) # None)
               => \E u \in users' :
                     /\ u.id = sess[h].user.id
                     /\ u.reset_token # None
                     /\ u.reset_token_expiry # NoExpiry]_vars

\* C31: every stored proposal is linked to its creator.  A proposal that is
\* stored carries the id of the account its request was accepted for, and in
\* every state, also after runs of the sweeper, the user_id of every proposal
\* is the id of a stored account.
C31_ProposalsHaveOwners ==
    /\ [](\A p \in proposals : \E u \in users : u.id = p)
    /\ [][\A h \in Handlers :
             (AddProposalCommit(h) /\ proposals' # proposals) =>
                 \E u \in users' :
                     /\ u.username = sess[h].tok.sub
                     /\ u.id = sess[h].user.id
                     /\ proposals' = proposals \cup {u.id}]_vars

\* C31 witness: one account owns a proposal, and a request to add a proposal
\* is in flight for an account the sweeper has deleted since the request
\* loaded it.
C31_Witness ==
    /\ proposals # {}
    /\ \E h \in Handlers :
          /\ sess[h].op = "proposal"
          /\ RowById(users, sess[h].user.id) = None

\* The reset secrets a response of the reset request shows to its caller.
ResponseSecrets(answer) ==
    IF "reset_token" \in DOMAIN answer THEN {answer.reset_token} ELSE {}

\* C32: the reset secret reaches only the account's mailbox.  The response
\* of a reset request that stores a secret and sends its mail does not show
\* the secret it stores, so the caller, who gave only the email address,
\* learns no secret that a reset accepts for the account.
C32_SecretOnlyByMail ==
    \A h \in Handlers :
        (sess[h].op = "forgot_set" /\ RowById(users, sess[h].user.id) # None)
            => nextSecret \notin ResponseSecrets(ForgotCommitAnswer(h, TRUE))

\* C33: a confirmation token confirms only the account it was issued for.  A
\* confirm request with a confirmation token that sets is_confirmed sets it
\* on the account that was created when the token was issued, not on a later
\* account registered with the same username after the sweeper deleted the
\* first.
C33_TokenConfirmsItsOwnAccount ==
    [][\A h \in Handlers :
          (ConfirmCommit(h) /\ sess[h].tok \in ConfirmTokens) =>
              \A u \in users' :
                  (/\ u.id = sess[h].user.id
                   /\ u.is_confirmed
                   /\ \E v \in users : v.id = u.id /\ ~v.is_confirmed)
                    => u.created_at = sess[h].tok.exp - ConfirmTTL]_vars

\* C34: a password reset that succeeds changes the password hash and the two
\* reset fields of the matched account and nothing else: that account's
\* token_version, refresh_token_version, is_confirmed and other fields are as
\* before, every other account is as before, and every token that /me or
\* refresh accepted before the reset is accepted after it.
C34_ResetChangesOnlyPasswordAndResetFields ==
    [][\A h \in Handlers :
          (ResetCommit(h) /\ ResetCommitAnswer(h).status = 200) =>
              /\ \A u \in users : u.id # sess[h].user.id => u \in users'
              /\ \A v \in users' : v.id # sess[h].user.id => v \in users
              /\ \E u \in users, v \in users' :
                    /\ u.id = sess[h].user.id /\ v.id = u.id
                    /\ v.token_version = u.token_version
                    /\ v.refresh_token_version = u.refresh_token_version
                    /\ v.is_confirmed = u.is_confirmed
                    /\ v = [u EXCEPT !.password = v.password,
                                     !.reset_token = v.reset_token,
                                     !.reset_token_expiry = v.reset_token_expiry]
              /\ \A k \in Presentable \cup TokenShapes :
                    /\ MeAnswer(k).status = 200 => (MeAnswer(k).status = 200)'
                    /\ RefreshAnswer(k).status = 200 =>
                          (RefreshAnswer(k).status = 200)'
      ]_vars

\* C34 witness: an account that has logged out before has been through a
\* reset, and the token handed out for it is accepted by /me and by refresh.
C34_Witness ==
    \E u \in users, k \in IssuedTokens :
        /\ verify_password("NewPass1!", u.password)
        /\ u.reset_token = None
        /\ u.token_version > 0
        /\ k.sub = u.username
        /\ MeAnswer(k).status = 200
        /\ RefreshAnswer(k).status = 200

\* C35: a new reset request supersedes the earlier ones for the account.
\* When a request stores its secret S2, the account holds the hash of S2 with
\* its expiry and of no other secret, and every secret handed out before for
\* this account is held by no account: its verification yields nothing and a
\* reset with it is refused, then and, since a secret no account holds is
\* never held again, ever after.
C35_NewRequestSupersedes ==
    /\ [][\A h \in Handlers :
             (ForgotCommit(h) /\ nextSecret' = nextSecret + 1) =>
                 /\ \E v \in users' :
                       /\ v.id = sess[h].user.id
                       /\ verify_password(nextSecret, v.reset_token)
                       /\ v.reset_token_expiry = now + Hour
                       /\ \A k \in KnownSecrets :
                             ~verify_password(k, v.reset_token)
                 /\ \A k \in KnownSecrets :
                       Unheld({u \in users : u.id # sess[h].user.id}, k) =>
                           /\ Unheld(users', k)
                           /\ \A first \in FirstWithResetToken(users') :
                                 /\ verify_reset_token(first, k, now') = None
                                 /\ (ResetBeginAnswer(first, k).detail)' =
                                       "Invalid or expired token"]_vars
    /\ [][\A k \in KnownSecrets :
             Unheld(users, k) => Unheld(users', k)]_vars

\* C35 witness: the second secret handed out is stored on the account that
\* held the first, and the first is held by no account.
C35_Witness ==
    /\ nextSecret = 3
    /\ Unheld(users, 1)
    /\ \E u \in users :
          /\ u.reset_token # None
          /\ verify_password(2, u.reset_token)
          /\ u.username = "alice"
    /\ \A u \in users : u.username # "alice" => u.reset_token = None

\* C36: the logout endpoint refuses every token get_logged_in_user rejects
\* (not signed, lacking sub or version, sub of no account, version other than
\* the account's token_version) with 401 and changes nothing; a logout that
\* succeeds leaves its own token rejected, and when nothing came between its
\* read and its commit it raises both counters by exactly one: so the same
\* token replayed in later logout requests is refused and the counters are
\* incremented once.
C36_LogoutReplayRefused ==
    /\ [](\A k \in Presentable \cup {s \in TokenShapes : s.exp = AccessTTL} :
             get_logged_in_user(users, k, now, tz) = None =>
                 LogoutBeginAnswer(k) = Answer(401, "Invalid or expired token"))
    /\ [][\A h \in Handlers, k \in Presentable :
             (LogoutBegin(h, k) /\ LogoutBeginAnswer(k).status = 401) =>
                 UNCHANGED vars]_vars
    /\ [][\A h \in Handlers :
             (LogoutCommit(h) /\ LogoutCommitAnswer(h).status = 200) =>
                 /\ get_logged_in_user(users', sess[h].tok, now', tz') = None
                 /\ \A k \in {sess[h].tok} :
                       (LogoutBeginAnswer(k).status = 401)'
                 /\ sess[h].user \in users =>
                       \E v \in users' :
                           /\ v.id = sess[h].user.id
                           /\ v.token_version = sess[h].user.token_version + 1
                           /\ v.refresh_token_version =
                                 sess[h].user.refresh_token_version + 1]_vars

\* C36 witness: an account has been logged out once with an access token
\* handed out for it; the token is now refused by the logout endpoint and no
\* request is in flight.
C36_Witness ==
    /\ \A h \in Handlers : sess[h] = Idle
    /\ \E u \in users, k \in AccessTokens :
          /\ k.sub = u.username
          /\ logouts[u.id] = 1
          /\ u.token_version = k.version + 1
          /\ LogoutBeginAnswer(k).status = 401

====
